---- MODULE Spec2Model ----
(***************************************************************************)
(* Model of the option-risk / market-snapshot core of src/src/api.py:      *)
(* get_ib (gateway connect with retry), parse_symbol, the option symbol    *)
(* decoding, contract qualification with the currency retry, the market    *)
(* data subscription with its polling loop, and get_market_snapshot.       *)
(*                                                                         *)
(* Text is a sequence of one-character strings, so that slicing, splitting *)
(* and suffix tests are computed as the Python code computes them.         *)
(***************************************************************************)
EXTENDS Integers, Sequences, FiniteSets, TLC

(***************************************************************************)
(* Text helpers (Python str methods used by api.py).                       *)
(***************************************************************************)
Digits == {"0", "1", "2", "3", "4", "5", "6", "7", "8", "9"}

DigitVal(c) ==
  CASE c = "0" -> 0 [] c = "1" -> 1 [] c = "2" -> 2 [] c = "3" -> 3
    [] c = "4" -> 4 [] c = "5" -> 5 [] c = "6" -> 6 [] c = "7" -> 7
    [] c = "8" -> 8 [] c = "9" -> 9

LowerChars == <<"a", "b", "c", "d", "e", "f", "g", "h", "i", "j", "k", "l", "m",
                "n", "o", "p", "q", "r", "s", "t", "u", "v", "w", "x", "y", "z">>
UpperChars == <<"A", "B", "C", "D", "E", "F", "G", "H", "I", "J", "K", "L", "M",
                "N", "O", "P", "Q", "R", "S", "T", "U", "V", "W", "X", "Y", "Z">>

\* str.upper() on one character
UpperChar(c) ==
  IF \E k \in 1..Len(LowerChars) : LowerChars[k] = c
    THEN UpperChars[CHOOSE k \in 1..Len(LowerChars) : LowerChars[k] = c]
    ELSE c

\* str.upper()
Upper(s) == [k \in 1..Len(s) |-> UpperChar(s[k])]

\* s[a:b] with 0-based, already clamped, Python offsets
Slice(s, a, b) == IF b <= a THEN <<>> ELSE SubSeq(s, a + 1, b)

Max0(n) == IF n < 0 THEN 0 ELSE n

\* s[-n:]
LastN(s, n) == Slice(s, Max0(Len(s) - n), Len(s))

\* s[:-n]
DropLastN(s, n) == Slice(s, 0, Max0(Len(s) - n))

\* str.endswith
EndsWith(s, suf) == Len(s) >= Len(suf) /\ LastN(s, Len(suf)) = suf

RECURSIVE LStrip(_)
LStrip(s) == IF s # <<>> /\ Head(s) = " " THEN LStrip(Tail(s)) ELSE s

RECURSIVE RStrip(_)
RStrip(s) ==
  IF s # <<>> /\ s[Len(s)] = " " THEN RStrip(SubSeq(s, 1, Len(s) - 1)) ELSE s

\* str.strip()
Strip(s) == RStrip(LStrip(s))

\* str.replace(' ', '')
RECURSIVE RemoveSpaces(_)
RemoveSpaces(s) ==
  IF s = <<>> THEN <<>>
  ELSE IF Head(s) = " " THEN RemoveSpaces(Tail(s))
  ELSE <<Head(s)>> \o RemoveSpaces(Tail(s))

\* str.split(): the maximal runs of non-space characters
RECURSIVE SplitFrom(_, _, _)
SplitFrom(s, cur, acc) ==
  IF s = <<>> THEN (IF cur = <<>> THEN acc ELSE Append(acc, cur))
  ELSE IF Head(s) = " "
    THEN SplitFrom(Tail(s), <<>>, IF cur = <<>> THEN acc ELSE Append(acc, cur))
    ELSE SplitFrom(Tail(s), Append(cur, Head(s)), acc)

Split(s) == SplitFrom(s, <<>>, <<>>)

Contains(s, c) == \E k \in 1..Len(s) : s[k] = c

\* the value of a string of decimal digits
RECURSIVE DigitsValue(_)
DigitsValue(s) ==
  IF s = <<>> THEN 0
  ELSE 10 * DigitsValue(SubSeq(s, 1, Len(s) - 1)) + DigitVal(s[Len(s)])

RECURSIVE Pow10(_)
Pow10(n) == IF n = 0 THEN 1 ELSE 10 * Pow10(n - 1)

AllDigits(s) == \A k \in 1..Len(s) : s[k] \in Digits

\* position of the first "." of s, 0 when there is none
DotPos(s) == IF Contains(s, ".") THEN CHOOSE k \in 1..Len(s) :
                    s[k] = "." /\ \A j \in 1..(k - 1) : s[j] # "." ELSE 0

\* a digit run of a float literal: digits, with single "_" between digits
DigitPart(s) ==
  /\ s # <<>>
  /\ \A k \in 1..Len(s) : s[k] \in Digits \cup {"_"}
  /\ s[1] # "_" /\ s[Len(s)] # "_"
  /\ \A k \in 1..(Len(s) - 1) : ~(s[k] = "_" /\ s[k + 1] = "_")

\* the digits of a digit run, the "_" dropped
RECURSIVE DigitsOnly(_)
DigitsOnly(s) ==
  IF s = <<>> THEN <<>>
  ELSE IF Head(s) = "_" THEN DigitsOnly(Tail(s))
  ELSE <<Head(s)>> \o DigitsOnly(Tail(s))

\* the text after an optional sign
Unsigned(s) == IF s # <<>> /\ s[1] \in {"+", "-"} THEN Tail(s) ELSE s

\* position of the exponent mark of s, 0 when there is none
ExpPos(s) == IF \E k \in 1..Len(s) : s[k] \in {"e", "E"}
               THEN CHOOSE k \in 1..Len(s) :
                      s[k] \in {"e", "E"} /\ \A j \in 1..(k - 1) : s[j] \notin {"e", "E"}
               ELSE 0

\* the mantissa and the exponent text of an unsigned literal
Mantissa(u) == IF ExpPos(u) = 0 THEN u ELSE SubSeq(u, 1, ExpPos(u) - 1)
Exponent(u) == IF ExpPos(u) = 0 THEN <<>> ELSE SubSeq(u, ExpPos(u) + 1, Len(u))

IntPart(m) == IF DotPos(m) = 0 THEN m ELSE SubSeq(m, 1, DotPos(m) - 1)
FracPart(m) == IF DotPos(m) = 0 THEN <<>> ELSE SubSeq(m, DotPos(m) + 1, Len(m))

\* the words float() accepts beside the literals, in any case
FloatInfWords == {<<"I", "N", "F">>, <<"I", "N", "F", "I", "N", "I", "T", "Y">>}
FloatNanWord == <<"N", "A", "N">>

\* float(s) accepts s (s without surrounding whitespace): an optional sign,
\* then inf, infinity or nan, or digits with at most one "." and at least one
\* digit, then an optional exponent
FloatOk(s) ==
  LET u == Unsigned(s)
      m == Mantissa(u)
      ip == IntPart(m)
      fp == FracPart(m)
      ex == Unsigned(Exponent(u))
  IN  \/ Upper(u) \in FloatInfWords \cup {FloatNanWord}
      \/ /\ ip = <<>> \/ DigitPart(ip)
         /\ fp = <<>> \/ DigitPart(fp)
         /\ Len(ip) + Len(fp) > 0
         /\ ExpPos(u) # 0 => DigitPart(ex)

\* float(s) as the exact fraction num/den of the literal (its rounding to a
\* double left out); den = 0 stands for the values that are no fraction:
\* 1/0 infinity, -1/0 minus infinity, 0/0 not-a-number
FloatVal(s) ==
  LET neg == s # <<>> /\ s[1] = "-"
      u == Unsigned(s)
      m == Mantissa(u)
      fp == DigitsOnly(FracPart(m))
      n == DigitsValue(DigitsOnly(IntPart(m)) \o fp)
      et == Exponent(u)
      e == DigitsValue(DigitsOnly(Unsigned(et)))
      eneg == et # <<>> /\ et[1] = "-"
  IN  IF Upper(u) = FloatNanWord THEN [num |-> 0, den |-> 0]
      ELSE IF Upper(u) \in FloatInfWords
        THEN [num |-> IF neg THEN 0 - 1 ELSE 1, den |-> 0]
      ELSE [num |-> (IF neg THEN 0 - n ELSE n) * (IF eneg THEN 1 ELSE Pow10(e)),
            den |-> Pow10(Len(fp)) * (IF eneg THEN Pow10(e) ELSE 1)]

(***************************************************************************)
(* parse_symbol and the market suffix table (api.py 34-62).                *)
(***************************************************************************)
\* MARKET_SUFFIXES, in the dict's insertion order
MARKET_SUFFIXES == <<
  [suffix |-> <<".", "L">>,      exchange |-> "LSE",  currency |-> "GBP"],
  [suffix |-> <<".", "D", "E">>, exchange |-> "IBIS", currency |-> "EUR"],
  [suffix |-> <<".", "P", "A">>, exchange |-> "SBF",  currency |-> "EUR"],
  [suffix |-> <<".", "A", "S">>, exchange |-> "AEB",  currency |-> "EUR"],
  [suffix |-> <<".", "S", "W">>, exchange |-> "EBS",  currency |-> "CHF"],
  [suffix |-> <<".", "M", "C">>, exchange |-> "BM",   currency |-> "EUR"],
  [suffix |-> <<".", "M", "I">>, exchange |-> "BVME", currency |-> "EUR"] >>

\* index of the first table entry whose suffix ends s, 0 when none does
FirstSuffix(s) ==
  LET hits == {k \in 1..Len(MARKET_SUFFIXES) :
                 EndsWith(s, Upper(MARKET_SUFFIXES[k].suffix))}
  IN  IF hits = {} THEN 0 ELSE CHOOSE k \in hits : \A j \in hits : k <= j

\* a normalizer that leaves the suffix on the ticker
parse_symbol_keep_suffix(sym) ==
  LET s == Strip(Upper(sym))
      k == FirstSuffix(s)
  IN  IF k # 0
        THEN [ticker |-> s, exchange |-> MARKET_SUFFIXES[k].exchange,
              currency |-> MARKET_SUFFIXES[k].currency]
        ELSE [ticker |-> s, exchange |-> "SMART", currency |-> "USD"]

parse_symbol(sym) ==
  LET s == Strip(Upper(sym))
      k == FirstSuffix(s)
  IN  IF k # 0
        THEN [ticker |-> DropLastN(s, Len(MARKET_SUFFIXES[k].suffix)),
              exchange |-> MARKET_SUFFIXES[k].exchange,
              currency |-> MARKET_SUFFIXES[k].currency]
        ELSE [ticker |-> s, exchange |-> "SMART", currency |-> "USD"]

(***************************************************************************)
(* Option symbol decoding of get_option_risk (api.py 231-281).  The result *)
(* carries status "ok", "400" (the HTTPException the code raises) or "500" *)
(* (another exception, turned into 500 by the handler at 347-350).         *)
(***************************************************************************)
NoFloat == [num |-> 0, den |-> 1]

DecodeFail(status, european) ==
  [status |-> status, european |-> european, right |-> <<>>, ticker |-> <<>>,
   expiry |-> <<>>, strike |-> NoFloat, exchange |-> "", currency |-> ""]

\* a probe that knows only the put
is_european_put_only(sym) ==
  Len(sym) > 2 /\ sym[1] = "P" /\ sym[2] = " "

\* api.py 239
is_european_format(sym) ==
  Len(sym) > 2 /\ sym[1] \in {"P", "C"} /\ sym[2] = " "

\* a European currency rule without the EUR default
EuropeanCurrencyAsParsed(raw_ticker, currency) == currency

\* api.py 263-264
EuropeanCurrency(raw_ticker, currency) ==
  IF currency = "USD" /\ ~Contains(raw_ticker, ".") THEN "EUR" ELSE currency

\* api.py 244-264
DecodeEuropean(sym) ==
  LET parts == Split(sym) IN
  IF Len(parts) < 4 THEN DecodeFail("400", TRUE)
  ELSE IF ~FloatOk(parts[4]) THEN DecodeFail("500", TRUE)
  ELSE
    LET raw_ticker == parts[2]
        p == parse_symbol(raw_ticker)
    IN  [status |-> "ok", european |-> TRUE, right |-> parts[1],
         ticker |-> p.ticker, expiry |-> parts[3],
         strike |-> FloatVal(parts[4]), exchange |-> p.exchange,
         currency |-> EuropeanCurrency(raw_ticker, p.currency)]

\* api.py 268-281
DecodeOSI(sym) ==
  LET symbol_clean == RemoveSpaces(sym)
      n == Len(symbol_clean)
  IN
  IF ~FloatOk(LastN(symbol_clean, 8)) THEN DecodeFail("500", FALSE)
  ELSE IF n < 9 THEN DecodeFail("500", FALSE)
  ELSE
    LET f == FloatVal(LastN(symbol_clean, 8))
        expiry_raw == Slice(symbol_clean, Max0(n - 15), Max0(n - 9))
        raw_ticker == Strip(DropLastN(symbol_clean, 15))
        p == parse_symbol(raw_ticker)
    IN  [status |-> "ok", european |-> FALSE, right |-> <<symbol_clean[n - 8]>>,
         ticker |-> p.ticker,
         expiry |-> <<"2", "0">> \o Slice(expiry_raw, 0, Len(expiry_raw)),
         strike |-> [num |-> f.num, den |-> f.den * 1000],
         exchange |-> p.exchange, currency |-> p.currency]

\* api.py 231-281
DecodeOption(raw) ==
  LET sym == Strip(raw) IN
  IF is_european_format(sym) THEN DecodeEuropean(sym) ELSE DecodeOSI(sym)

(***************************************************************************)
(* Request inputs: the symbol path parameter of the two endpoints.         *)
(***************************************************************************)
\* "P HMI  20260220 1900 M"
SymEurHMI ==
  <<"P", " ", "H", "M", "I", " ", " ", "2", "0", "2", "6", "0", "2", "2",
    "0", " ", "1", "9", "0", "0", " ", "M">>

\* " C BATS.L 20260220 19.5 M"
SymEurBATS ==
  <<" ", "C", " ", "B", "A", "T", "S", ".", "L", " ", "2", "0", "2", "6",
    "0", "2", "2", "0", " ", "1", "9", ".", "5", " ", "M">>

\* "P nesn.sw 20260320 100"
SymEurNESN ==
  <<"P", " ", "n", "e", "s", "n", ".", "s", "w", " ", "2", "0", "2", "6",
    "0", "3", "2", "0", " ", "1", "0", "0">>

\* "C HMI.X 20260220 1900 M"
SymEurDot ==
  <<"C", " ", "H", "M", "I", ".", "X", " ", "2", "0", "2", "6", "0", "2",
    "2", "0", " ", "1", "9", "0", "0", " ", "M">>

\* "P HMI 20260220"
SymEurShort ==
  <<"P", " ", "H", "M", "I", " ", "2", "0", "2", "6", "0", "2", "2", "0">>

\* "P HMI 20260220 abc M"
SymEurBadStrike ==
  <<"P", " ", "H", "M", "I", " ", "2", "0", "2", "6", "0", "2", "2", "0",
    " ", "a", "b", "c", " ", "M">>

\* "ASTS251114P00050000"
SymOsiASTS ==
  <<"A", "S", "T", "S", "2", "5", "1", "1", "1", "4", "P", "0", "0", "0",
    "5", "0", "0", "0", "0">>

\* "ASTS  260109P00065000"
SymOsiPadded ==
  <<"A", "S", "T", "S", " ", " ", "2", "6", "0", "1", "0", "9", "P", "0",
    "0", "0", "6", "5", "0", "0", "0">>

\* "BATS.L251114C00050000"
SymOsiBATS ==
  <<"B", "A", "T", "S", ".", "L", "2", "5", "1", "1", "1", "4", "C", "0",
    "0", "0", "5", "0", "0", "0", "0">>

\* "12345678"
SymOsiShort ==
  <<"1", "2", "3", "4", "5", "6", "7", "8">>

\* "ASTS251114P000X0000"
SymOsiBadStrike ==
  <<"A", "S", "T", "S", "2", "5", "1", "1", "1", "4", "P", "0", "0", "0",
    "X", "0", "0", "0", "0">>

\* "AAPL"
SymStkAAPL ==
  <<"A", "A", "P", "L">>

\* "BATS.L"
SymStkBATS ==
  <<"B", "A", "T", "S", ".", "L">>

\* " rms.pa "
SymStkRMS ==
  <<" ", "r", "m", "s", ".", "p", "a", " ">>

RiskSymbols ==
  {SymEurHMI, SymEurBATS, SymEurNESN, SymEurDot, SymEurShort, SymEurBadStrike,
   SymOsiASTS, SymOsiPadded, SymOsiBATS, SymOsiShort, SymOsiBadStrike}

SnapshotSymbols == {SymStkAAPL, SymStkBATS, SymStkRMS}

\* "ASTS25X114P00050000"
SymOsiBadExpiry ==
  <<"A", "S", "T", "S", "2", "5", "X", "1", "1", "4", "P", "0", "0", "0",
    "5", "0", "0", "0", "0">>

\* "14P00050000"
SymOsiNoTicker ==
  <<"1", "4", "P", "0", "0", "0", "5", "0", "0", "0", "0">>

\* "PLTR251114P00050000"
SymOsiPLTR ==
  <<"P", "L", "T", "R", "2", "5", "1", "1", "1", "4", "P", "0", "0", "0",
    "5", "0", "0", "0", "0">>

\* "p hmi 20260220 1900 M"
SymOsiLower ==
  <<"p", " ", "h", "m", "i", " ", "2", "0", "2", "6", "0", "2", "2", "0",
    " ", "1", "9", "0", "0", " ", "M">>

\* "P"
SymRightOnly ==
  <<"P">>

\* "P HMI 20260220 nan M"
SymEurNaN ==
  <<"P", " ", "H", "M", "I", " ", "2", "0", "2", "6", "0", "2", "2", "0",
    " ", "n", "a", "n", " ", "M">>

\* "C HMI 20260220 1.9e3"
SymEurExp ==
  <<"C", " ", "H", "M", "I", " ", "2", "0", "2", "6", "0", "2", "2", "0",
    " ", "1", ".", "9", "e", "3">>

\* "C 20260220 1900 M"
SymEurNoTicker ==
  <<"C", " ", "2", "0", "2", "6", "0", "2", "2", "0", " ", "1", "9", "0",
    "0", " ", "M">>

\* "ASTS251114X00050000"
SymOsiRightX ==
  <<"A", "S", "T", "S", "2", "5", "1", "1", "1", "4", "X", "0", "0", "0",
    "5", "0", "0", "0", "0">>

\* "ASTS251114p00050000"
SymOsiRightLower ==
  <<"A", "S", "T", "S", "2", "5", "1", "1", "1", "4", "p", "0", "0", "0",
    "5", "0", "0", "0", "0">>

\* the OSI form of api.py 222-223 and 235-236: the ticker, padding spaces, the
\* expiry YYMMDD, the right, the strike in thousandths on 8 digits
Spaces(n) == [k \in 1..n |-> " "]

EncodeOSI(ticker, right, expiry, strike, pad) ==
  ticker \o Spaces(pad) \o expiry \o <<right>> \o strike

OsiTickers == {<<"A", "S", "T", "S">>, <<"F">>, <<"C">>}
OsiRights == {"P", "C"}
OsiExpiries == {<<"2", "5", "1", "1", "1", "4">>, <<"2", "6", "0", "1", "0", "9">>}
OsiStrikes ==
  {<<"0", "0", "0", "5", "0", "0", "0", "0">>,
   <<"0", "0", "0", "6", "5", "0", "0", "0">>,
   <<"0", "0", "0", "0", "1", "5", "0", "0">>}
MaxPad == 2
OsiPads == {0, MaxPad}

OsiEncoded ==
  {EncodeOSI(tk, rt, e, st, pad) :
     tk \in OsiTickers, rt \in OsiRights, e \in OsiExpiries, st \in OsiStrikes,
     pad \in OsiPads}

\* the lower case of a text
LowerChar(c) ==
  IF \E k \in 1..Len(UpperChars) : UpperChars[k] = c
    THEN LowerChars[CHOOSE k \in 1..Len(UpperChars) : UpperChars[k] = c]
    ELSE c

Lower(s) == [k \in 1..Len(s) |-> LowerChar(s[k])]

\* the symbols given to parse_symbol in the normalizer runs: a ticker, then
\* nothing, a table suffix in either case or another ending, spaces around
ParseTickers == {<<>>, <<"A", "A", "P", "L">>, <<"r", "m", "s">>, <<"A", ".", "L">>}

TableSuffixes == {MARKET_SUFFIXES[k].suffix : k \in 1..Len(MARKET_SUFFIXES)}

ParseEndings ==
  {<<>>, <<".", "X">>, <<"L">>, <<".", "L", "L">>} \cup TableSuffixes \cup
  {Lower(x) : x \in TableSuffixes}

ParsePads == {<<>>, <<" ">>}

ParseInputs ==
  {lp \o tk \o e \o rp :
     lp \in ParsePads, tk \in ParseTickers, e \in ParseEndings, rp \in ParsePads}

\* the option symbols of the decoding runs
DecodeSymbols ==
  RiskSymbols \cup OsiEncoded \cup
  {SymOsiBadExpiry, SymOsiNoTicker, SymOsiPLTR, SymOsiLower, SymRightOnly,
   SymEurNaN, SymEurExp, SymEurNoTicker, SymOsiRightX, SymOsiRightLower}

(***************************************************************************)
(* Gateway data: contracts, qualification answers, tickers.                *)
(***************************************************************************)
\* an optional feed number: absent (None), not-a-number, infinite, or a value
FNone == [k |-> "none", v |-> 0]
FNaN == [k |-> "nan", v |-> 0]
FInf == [k |-> "inf", v |-> 0]
FNegInf == [k |-> "ninf", v |-> 0]
FNum(n) == [k |-> "num", v |-> n]

\* the None of a list returned by qualifyContractsAsync
NoneContract ==
  [present |-> FALSE, secType |-> "", symbol |-> <<>>, expiry |-> <<>>,
   strike |-> NoFloat, right |-> "", exchange |-> "", currency |-> "",
   conId |-> 0]

\* a contract that keeps a right code it does not know
OptionKeepsRight(d, currency) ==
  [present |-> TRUE, secType |-> "OPT", symbol |-> d.ticker,
   expiry |-> d.expiry, strike |-> d.strike,
   right |-> IF d.right = <<"P">> THEN "P"
             ELSE IF d.right = <<"C">> THEN "C" ELSE "?",
   exchange |-> "SMART", currency |-> currency, conId |-> 0]

\* Option(ticker, expiry, strike_val, 'P' if right == 'P' else 'C', 'SMART',
\*        currency=...) of api.py 284 and 295
Option(d, currency) ==
  [present |-> TRUE, secType |-> "OPT", symbol |-> d.ticker,
   expiry |-> d.expiry, strike |-> d.strike,
   right |-> IF d.right = <<"P">> THEN "P" ELSE "C",
   exchange |-> "SMART", currency |-> currency, conId |-> 0]

\* Contract(symbol=ticker, secType="STK", exchange=..., currency=...), api.py 465
Stock(p) ==
  [present |-> TRUE, secType |-> "STK", symbol |-> p.ticker, expiry |-> <<>>,
   strike |-> NoFloat, right |-> "", exchange |-> p.exchange,
   currency |-> p.currency, conId |-> 0]

\* the contract as the gateway returns it once qualified
Qualified(c) == [c EXCEPT !.conId = 1]

\* what qualifyContractsAsync(c) can return: [], [None] or [c qualified]
QualifyAnswers(c) == {<<>>, <<NoneContract>>, <<Qualified(c)>>}

\* a test that forgets the [None] answer
NotQualifiedEmptyOnly(q) == q = <<>>

\* "not qualified or not qualified[0]" of api.py 290, 297 (negated) and 301
NotQualified(q) == q = <<>> \/ ~q[1].present

\* "not qualified" of api.py 469
SnapshotNotQualified(q) == q = <<>>

NoGreeks ==
  [present |-> FALSE, delta |-> FNone, gamma |-> FNone, vega |-> FNone,
   theta |-> FNone, impliedVol |-> FNone, undPrice |-> FNone]

SomeGreeks ==
  [present |-> TRUE, delta |-> FNum(1), gamma |-> FNum(2), vega |-> FNum(3),
   theta |-> FNum(4), impliedVol |-> FNum(5), undPrice |-> FNum(6)]

\* client.ticker(...) returned None
NoTicker ==
  [present |-> FALSE, modelGreeks |-> NoGreeks, bidGreeks |-> NoGreeks,
   askGreeks |-> NoGreeks, lastGreeks |-> NoGreeks, last |-> FNone,
   volume |-> FNone, openInterest |-> FNone,
   bid |-> FNone, ask |-> FNone, close |-> FNone]

\* a ticker on which nothing has arrived yet
TkEmpty == [NoTicker EXCEPT !.present = TRUE, !.last = FNaN, !.volume = FNaN]

TkNoneLast == [NoTicker EXCEPT !.present = TRUE]

TkLast == [TkEmpty EXCEPT !.last = FNum(5), !.volume = FNum(10)]

TkModel == [TkEmpty EXCEPT !.modelGreeks = SomeGreeks]

TkAsk == [TkEmpty EXCEPT !.askGreeks = SomeGreeks]

TkInfVolume == [TkLast EXCEPT !.volume = FInf]

\* what one poll, client.ticker(qualified[0]), can return
PollAnswers == {NoTicker, TkEmpty, TkNoneLast, TkLast, TkModel, TkAsk, TkInfVolume}

\* a greeks set as the feed delivers it for one tick kind (1 model, 2 bid,
\* 3 ask, 4 last): every field there, gamma missing, or delta not-a-number;
\* the values tell the kinds apart
GreeksShapes == {"absent", "full", "partial", "nan"}

GreeksOf(kind, shape) ==
  IF shape = "absent" THEN NoGreeks
  ELSE [present |-> TRUE,
        delta |-> IF shape = "nan" THEN FNaN ELSE FNum(10 * kind + 1),
        gamma |-> IF shape = "partial" THEN FNone ELSE FNum(10 * kind + 2),
        vega |-> FNum(10 * kind + 3), theta |-> FNum(10 * kind + 4),
        impliedVol |-> FNum(10 * kind + 5), undPrice |-> FNum(10 * kind + 6)]

\* the tickers a poll can return once the feed is free to deliver any subset
\* of the four greeks sets, with a last price absent, not-a-number or there
TickerSpace ==
  {NoTicker} \cup
  {[TkEmpty EXCEPT !.modelGreeks = GreeksOf(1, m), !.bidGreeks = GreeksOf(2, b),
                   !.askGreeks = GreeksOf(3, a), !.lastGreeks = GreeksOf(4, l),
                   !.last = x] :
     m \in GreeksShapes, b \in GreeksShapes, a \in GreeksShapes,
     l \in GreeksShapes, x \in {FNone, FNaN, FNum(5)}}

\* a chain that asks the bid side first
FirstGreeksBidFirst(tk) ==
  IF tk.bidGreeks.present THEN tk.bidGreeks
  ELSE IF tk.modelGreeks.present THEN tk.modelGreeks
  ELSE IF tk.askGreeks.present THEN tk.askGreeks
  ELSE tk.lastGreeks

\* t.modelGreeks or t.bidGreeks or t.askGreeks or t.lastGreeks, api.py 315, 326
FirstGreeks(tk) ==
  IF tk.modelGreeks.present THEN tk.modelGreeks
  ELSE IF tk.bidGreeks.present THEN tk.bidGreeks
  ELSE IF tk.askGreeks.present THEN tk.askGreeks
  ELSE tk.lastGreeks

\* a break condition that forgets the last price
HasDataGreeksOnly(tk) == tk.present /\ FirstGreeks(tk).present

\* the break condition of the polling loop, api.py 313-317
HasData(tk) ==
  tk.present /\ (FirstGreeks(tk).present \/ tk.last.k \notin {"none", "nan"})

\* int(...) of api.py 341-342 raises OverflowError on an infinite value
BuildRaises(tk) ==
  tk.volume.k \in {"inf", "ninf"} \/ tk.openInterest.k \in {"inf", "ninf"}

\* the default of the greek fields of OptionGreeks, models.py 58-63
GreekDefault == FNum(0)

\* a default that leaves the field empty
GreekOrNone(g, x) == IF g.present /\ x.k # "none" THEN x ELSE FNone

\* "g.f if (g and g.f is not None) else 0.0", api.py 335-340
GreekOrZero(g, x) == IF g.present /\ x.k # "none" THEN x ELSE GreekDefault

\* "x if (x is not None and not math.isnan(x)) else d", api.py 341-343
\* and 491-494
UnlessNaN(x, d) == IF x.k \notin {"none", "nan"} THEN x ELSE d

\* the response without a body (an error)
NoBody ==
  [kind |-> "none", delta |-> FNone, gamma |-> FNone, vega |-> FNone,
   theta |-> FNone, implied_vol |-> FNone, underlying_price |-> FNone,
   volume |-> FNone, open_interest |-> FNone, last_price |-> FNone,
   price |-> FNone, bid |-> FNone, ask |-> FNone]

\* a result that takes a field the selected set lacks from the next set
OptionGreeksFieldwise(tk) ==
  LET g == FirstGreeks(tk)
      Pick(x, y) == IF x.k # "none" THEN x ELSE y
  IN
  [NoBody EXCEPT
     !.kind = "OptionGreeks",
     !.delta = GreekOrZero(g, g.delta),
     !.gamma = Pick(tk.modelGreeks.gamma, Pick(tk.bidGreeks.gamma,
                 Pick(tk.askGreeks.gamma, Pick(tk.lastGreeks.gamma, GreekDefault)))),
     !.vega = GreekOrZero(g, g.vega),
     !.theta = GreekOrZero(g, g.theta),
     !.implied_vol = GreekOrZero(g, g.impliedVol),
     !.underlying_price = GreekOrZero(g, g.undPrice),
     !.volume = UnlessNaN(tk.volume, FNum(0)),
     !.open_interest = UnlessNaN(tk.openInterest, FNum(0)),
     !.last_price = UnlessNaN(tk.last, FNum(0))]

\* OptionGreeks(...) of api.py 326-345 (the numbers of the record)
OptionGreeks(tk) ==
  LET g == FirstGreeks(tk) IN
  [NoBody EXCEPT
     !.kind = "OptionGreeks",
     !.delta = GreekOrZero(g, g.delta),
     !.gamma = GreekOrZero(g, g.gamma),
     !.vega = GreekOrZero(g, g.vega),
     !.theta = GreekOrZero(g, g.theta),
     !.implied_vol = GreekOrZero(g, g.impliedVol),
     !.underlying_price = GreekOrZero(g, g.undPrice),
     !.volume = UnlessNaN(tk.volume, FNum(0)),
     !.open_interest = UnlessNaN(tk.openInterest, FNum(0)),
     !.last_price = UnlessNaN(tk.last, FNum(0))]

(***************************************************************************)
(* Price derivation of get_market_snapshot, api.py 491-503.  Feed prices   *)
(* are counted in half ticks, the values drawn being even, so that the     *)
(* midpoint of two of them is a whole number.                              *)
(***************************************************************************)
\* the truth value Python gives an optional float: None and 0.0 are false
Truthy(x) == x.k # "none" /\ ~(x.k = "num" /\ x.v = 0)

\* a + b on floats
FAdd(a, b) ==
  IF a.k = "nan" \/ b.k = "nan" THEN FNaN
  ELSE IF a.k = "num" /\ b.k = "num" THEN FNum(a.v + b.v)
  ELSE IF a.k = "num" THEN b
  ELSE IF b.k = "num" \/ a.k = b.k THEN a
  ELSE FNaN

\* a / 2 on floats
FHalf(a) == IF a.k = "num" THEN FNum(a.v \div 2) ELSE a

\* "a or b" on optional floats
FOr(a, b) == IF Truthy(a) THEN a ELSE b

\* api.py 491-503
DerivePrice(tk) ==
  LET v_last == UnlessNaN(tk.last, FNone)
      v_bid == UnlessNaN(tk.bid, FNone)
      v_ask == UnlessNaN(tk.ask, FNone)
      v_close == UnlessNaN(tk.close, FNone)
  IN  IF v_last.k # "none" THEN v_last
      ELSE IF Truthy(v_bid) /\ Truthy(v_ask) THEN FHalf(FAdd(v_bid, v_ask))
      ELSE IF Truthy(v_close) THEN v_close
      ELSE FOr(v_bid, FOr(v_ask, FNum(0)))

\* MarketSnapshot(...) of api.py 507-513 (the numbers of the record)
MarketSnapshot(tk) ==
  [NoBody EXCEPT !.kind = "MarketSnapshot",
                 !.price = DerivePrice(tk),
                 !.bid = UnlessNaN(tk.bid, FNone),
                 !.ask = UnlessNaN(tk.ask, FNone)]

\* a ticker of reqTickersAsync with the four prices given
Quote(l, b, a, c) ==
  [NoTicker EXCEPT !.present = TRUE, !.last = l, !.bid = b, !.ask = a, !.close = c]

\* what reqTickersAsync delivers in the runs of whole requests
SnapshotAnswers ==
  {Quote(FNaN, FNaN, FNaN, FNaN), Quote(FNum(20), FNum(18), FNum(22), FNum(16))}

\* the values one price field of the feed can take
FeedValues == {FNone, FNaN, FInf, FNegInf, FNum(0), FNum(20), FNum(24), FNum(0 - 2)}

\* every combination of the four price fields
QuoteSpace ==
  {Quote(l, b, a, c) : l \in FeedValues, b \in FeedValues, a \in FeedValues,
                       c \in FeedValues}

(***************************************************************************)
(* Program constants.                                                      *)
(***************************************************************************)
retries == 3
BaseDelay == 2
PollCeiling == 50
DelayedFrozen == 4

\* api.py 81
MoreAttempts(k) == k < retries - 1

\* a delay that does not grow
NextDelaySame(d) == d

\* api.py 83
NextDelay(d) == d * 2

\* a candidate list in another order
AltCurrenciesSwapped == <<"GBP", "EUR", "CHF", "USD">>

\* a candidate list with one currency more
AltCurrenciesLonger == <<"EUR", "GBP", "CHF", "USD", "JPY">>

\* api.py 292
AltCurrencies == <<"EUR", "GBP", "CHF", "USD">>

\* a retry loop that skips nothing
AlreadyTriedNever(alt_currency, currency) == FALSE

\* api.py 293
AlreadyTried(alt_currency, currency) == alt_currency = currency

Res(status, detail) == [status |-> status, detail |-> detail]
Pending == Res("pending", "")
NoDecode == DecodeFail("", FALSE)

(***************************************************************************)
(* Exceptions and the handlers that turn them into responses.              *)
(***************************************************************************)
HTTPException(status, detail) == [http |-> TRUE, status |-> status, detail |-> detail]
OtherException(detail) == [http |-> FALSE, status |-> "", detail |-> detail]

\* no exception raised
NoException == [http |-> FALSE, status |-> "none", detail |-> ""]

\* a handler that wraps every exception
RiskExceptWrapAll(e) == Res("500", e.detail)

\* the except clause of get_option_risk, api.py 347-350
RiskExcept(e) ==
  IF e.http THEN Res(e.status, e.detail) ELSE Res("500", e.detail)

\* the except clause around reqTickersAsync, api.py 481-483
TickersExcept(e) == Res("503", "IBKR Error")

\* an exception that leaves the endpoint function: the framework answers an
\* HTTPException with its status and anything else with 500
Unhandled(e) ==
  IF e.http THEN Res(e.status, e.detail) ELSE Res("500", "Internal Server Error")

\* the exception a failed decoding stands for, api.py 247, 253, 271, 273
DecodeException(d) ==
  IF d.status = "400" THEN HTTPException("400", "Invalid option symbol format")
  ELSE OtherException("ValueError or IndexError")

StockDecode(p) ==
  [DecodeFail("ok", FALSE) EXCEPT !.ticker = p.ticker, !.exchange = p.exchange,
                                  !.currency = p.currency]

\* what the gateway does with one qualifyContractsAsync call
QualifyOutcomes == {"ok", "empty", "none", "raise"}

Answer(o, c) ==
  IF o = "ok" THEN <<Qualified(c)>> ELSE IF o = "none" THEN <<NoneContract>> ELSE <<>>

(***************************************************************************)
(* State.                                                                  *)
(***************************************************************************)
Requests == {1, 2}

VARIABLES
  connected,   \* ib.isConnected() of the shared client, api.py 18
  tickerKey,   \* how the client library keys its tickers: by "contract"
               \* value or by contract "object"; the source does not say
  subs,        \* the shared client's market data subscriptions, by key
  pc,          \* where each request stands
  endpoint,    \* which endpoint each request calls
  symbol,      \* the symbol path parameter
  i,           \* get_ib: the attempt index
  delay,       \* get_ib: the delay before the next attempt
  mdTypeReq,   \* the reqMarketDataType calls the request has issued
  dec,         \* the decoded symbol: ticker, exchange, currency, option fields
  qualified,   \* the list last returned by qualifyContractsAsync
  alt,         \* position of the currency retry loop in AltCurrencies
  qlog,        \* the qualification calls issued: currency and answer
  polls,       \* iterations started by the polling loop in progress
  loopExit,    \* how the polling loop was left: break, ceiling or raise
  t,           \* the ticker last returned by a poll
  opened,      \* reqMktData calls of the request
  released,    \* cancelMktData calls of the request
  result,      \* the response of the request: status and detail
  body,        \* the numbers of the response's record
  raised       \* the exception the request has raised, if any

vars == <<connected, tickerKey, subs, pc, endpoint, symbol, i, delay, mdTypeReq, dec,
          qualified, alt, qlog, polls, loopExit, t, opened, released,
          result, body, raised>>

SymbolsOf(e) ==
  IF e = "option_risk" THEN RiskSymbols
  ELSE IF e = "market_snapshot" THEN SnapshotSymbols
  ELSE {<<>>}

\* the key under which reqMktData, ticker and cancelMktData (api.py 306, 312,
\* 320) find the subscription of contract c of request r: the request passes
\* only the contract, each request building its own contract object
SubKey(r, c) == IF tickerKey = "contract" THEN <<0, c>> ELSE <<r, c>>

InitLocals ==
  /\ tickerKey \in {"contract", "object"}
  /\ subs = {}
  /\ pc = [r \in Requests |-> IF endpoint[r] = "none" THEN "idle" ELSE "start"]
  /\ i = [r \in Requests |-> 0]
  /\ delay = [r \in Requests |-> 0]
  /\ mdTypeReq = [r \in Requests |-> <<>>]
  /\ dec = [r \in Requests |-> NoDecode]
  /\ qualified = [r \in Requests |-> <<>>]
  /\ alt = [r \in Requests |-> 0]
  /\ qlog = [r \in Requests |-> <<>>]
  /\ polls = [r \in Requests |-> 0]
  /\ loopExit = [r \in Requests |-> "none"]
  /\ t = [r \in Requests |-> NoTicker]
  /\ opened = [r \in Requests |-> 0]
  /\ released = [r \in Requests |-> 0]
  /\ result = [r \in Requests |-> Pending]
  /\ body = [r \in Requests |-> NoBody]
  /\ raised = [r \in Requests |-> NoException]

\* one request, any symbol, the gateway connected or not
Init ==
  /\ connected \in BOOLEAN
  /\ endpoint \in {f \in [Requests -> {"option_risk", "market_snapshot", "none"}] :
                     f[1] # "none" /\ f[2] = "none"}
  /\ symbol \in {f \in [Requests -> RiskSymbols \cup SnapshotSymbols \cup {<<>>}] :
                   \A r \in Requests : f[r] \in SymbolsOf(endpoint[r])}
  /\ InitLocals

\* two concurrent requests on the disconnected gateway
ConcCalls1 == {<<"option_risk", SymOsiASTS>>}
ConcCalls2 ==
  {<<"option_risk", SymOsiASTS>>, <<"option_risk", SymEurHMI>>,
   <<"market_snapshot", SymStkAAPL>>}

InitConc ==
  /\ connected = FALSE
  /\ \E c1 \in ConcCalls1, c2 \in ConcCalls2 :
       /\ endpoint = (1 :> c1[1]) @@ (2 :> c2[1])
       /\ symbol = (1 :> c1[2]) @@ (2 :> c2[2])
  /\ InitLocals

\* the request ends with response res, whose record is b
FinishWith(r, res, b) ==
  /\ pc' = [pc EXCEPT ![r] = "done"]
  /\ result' = [result EXCEPT ![r] = res]
  /\ body' = [body EXCEPT ![r] = b]

\* the request ends with an error response
Finish(r, res) == FinishWith(r, res, NoBody)

Goto(r, where) ==
  /\ pc' = [pc EXCEPT ![r] = where]
  /\ UNCHANGED <<result, body, raised>>

\* the request returns the record b
Return(r, res, b) ==
  /\ FinishWith(r, res, b)
  /\ UNCHANGED raised

\* exception e is raised and answered with res
Raise(r, e, res) ==
  /\ Finish(r, res)
  /\ raised' = [raised EXCEPT ![r] = e]

\* e raised inside the try of get_option_risk, api.py 230-350
RaiseInRisk(r, e) == Raise(r, e, RiskExcept(e))

\* e raised inside the try of get_market_snapshot, api.py 476-483
RaiseInTickers(r, e) == Raise(r, e, TickersExcept(e))

\* e raised outside any try of the endpoint
RaiseOutside(r, e) == Raise(r, e, Unhandled(e))

(***************************************************************************)
(* get_ib, api.py 65-87.                                                   *)
(***************************************************************************)
\* api.py 66-68: the isConnected test and the locals of the retry loop
GetIb(r) ==
  /\ pc[r] = "start"
  /\ IF connected
       THEN Goto(r, "entered") /\ UNCHANGED <<i, delay>>
       ELSE /\ Goto(r, "loop")
            /\ i' = [i EXCEPT ![r] = 0]
            /\ delay' = [delay EXCEPT ![r] = BaseDelay]
  /\ UNCHANGED <<connected, tickerKey, subs, endpoint, symbol, mdTypeReq, dec, qualified,
                 alt, qlog, polls, loopExit, t, opened, released>>

\* api.py 69-76: the loop head and the start of ib.connectAsync; past the last
\* iteration the function returns ib (87)
ConnectStart(r) ==
  /\ pc[r] = "loop"
  /\ Goto(r, IF i[r] < retries THEN "connecting" ELSE "entered")
  /\ UNCHANGED <<connected, tickerKey, subs, endpoint, symbol, i, delay, mdTypeReq, dec,
                 qualified, alt, qlog, polls, loopExit, t, opened, released>>

\* api.py 72-86: connectAsync returns or raises
ConnectReturn(r) ==
  /\ pc[r] = "connecting"
  /\ \E ok \in BOOLEAN :
       IF ok
         THEN /\ connected' = TRUE
              /\ Goto(r, "entered")
              /\ i' = [i EXCEPT ![r] = 0]
              /\ delay' = [delay EXCEPT ![r] = 0]
         ELSE /\ UNCHANGED <<connected, i, delay>>
              /\ IF MoreAttempts(i[r])
                   THEN Goto(r, "sleeping")
                   ELSE RaiseOutside(r, HTTPException("503",
                                          "Could not connect to IBKR"))
  /\ UNCHANGED <<tickerKey, subs, endpoint, symbol, mdTypeReq, dec, qualified,
                 alt, qlog, polls, loopExit, t, opened, released>>

\* api.py 82-83: asyncio.sleep(delay) is over
SleepDone(r) ==
  /\ pc[r] = "sleeping"
  /\ delay' = [delay EXCEPT ![r] = NextDelay(delay[r])]
  /\ i' = [i EXCEPT ![r] = i[r] + 1]
  /\ Goto(r, "loop")
  /\ UNCHANGED <<connected, tickerKey, subs, endpoint, symbol, mdTypeReq, dec, qualified,
                 alt, qlog, polls, loopExit, t, opened, released>>

(***************************************************************************)
(* get_option_risk, api.py 217-350.                                        *)
(***************************************************************************)
\* the log keeps of an answer whether it qualified, failed ([] or [None]) or
\* raised
LogAnswer(o) == IF o \in {"empty", "none"} THEN "fail" ELSE o

LogCall(r, contract, o) ==
  qlog' = [qlog EXCEPT ![r] = Append(@, [currency |-> contract.currency,
                                         answer |-> LogAnswer(o),
                                         contract |-> contract])]

\* a request that does not ask for the market data mode
reqMarketDataTypeSkipped(log, mode) == log

\* client.reqMarketDataType(mode), api.py 228 and 461: the calls issued
reqMarketDataType(log, mode) == Append(log, mode)

\* the decoding of every symbol of the inputs, computed once
Decodings == {<<s, DecodeOption(s)>> : s \in DecodeSymbols}

\* api.py 239-281 for the symbol of a request
Decoding(s) == (CHOOSE p \in Decodings : p[1] = s)[2]

\* api.py 228-284: reqMarketDataType(4), then the decoding of the symbol
EnterRisk(r) ==
  /\ pc[r] = "entered"
  /\ endpoint[r] = "option_risk"
  /\ mdTypeReq' = [mdTypeReq EXCEPT ![r] = reqMarketDataType(@, DelayedFrozen)]
  /\ LET d == Decoding(symbol[r]) IN
       /\ dec' = [dec EXCEPT ![r] = d]
       /\ IF d.status = "ok"
            THEN Goto(r, "qualify")
            ELSE RaiseInRisk(r, DecodeException(d))
  /\ UNCHANGED <<connected, tickerKey, subs, endpoint, symbol, i, delay, qualified, alt,
                 qlog, polls, loopExit, t, opened, released>>

\* api.py 284-290: the first qualification, with the inferred currency
Qualify(r) ==
  /\ pc[r] = "qualify"
  /\ \E o \in QualifyOutcomes :
       LET contract == Option(dec[r], dec[r].currency)
           ans == Answer(o, contract)
       IN  /\ LogCall(r, contract, o)
           /\ IF o = "raise"
                THEN /\ RaiseInRisk(r, OtherException("qualify failed"))
                     /\ UNCHANGED <<qualified, alt>>
                ELSE /\ qualified' = [qualified EXCEPT ![r] = ans]
                     /\ IF NotQualified(ans) /\ dec[r].european
                          THEN Goto(r, "retry") /\ alt' = [alt EXCEPT ![r] = 1]
                          ELSE Goto(r, "check") /\ UNCHANGED alt
  /\ UNCHANGED <<connected, tickerKey, subs, endpoint, symbol, i, delay, mdTypeReq, dec,
                 polls, loopExit, t, opened, released>>

\* api.py 292-299: one iteration of the loop over the alternate currencies
Retry(r) ==
  /\ pc[r] = "retry"
  /\ \E o \in QualifyOutcomes :
       IF alt[r] > Len(AltCurrencies)
         THEN /\ Goto(r, "check")
              /\ UNCHANGED <<qualified, alt, qlog>>
         ELSE
           LET alt_currency == AltCurrencies[alt[r]]
               contract == Option(dec[r], alt_currency)
               ans == Answer(o, contract)
           IN  IF AlreadyTried(alt_currency, dec[r].currency)
                 THEN /\ Goto(r, "retry")
                      /\ alt' = [alt EXCEPT ![r] = alt[r] + 1]
                      /\ UNCHANGED <<qualified, qlog>>
                 ELSE
                   /\ LogCall(r, contract, o)
                   /\ IF o = "raise"
                        THEN /\ RaiseInRisk(r, OtherException("qualify failed"))
                             /\ UNCHANGED <<qualified, alt>>
                        ELSE /\ qualified' = [qualified EXCEPT ![r] = ans]
                             /\ IF ~NotQualified(ans)
                                  THEN Goto(r, "check") /\ UNCHANGED alt
                                  ELSE /\ Goto(r, "retry")
                                       /\ alt' = [alt EXCEPT ![r] = alt[r] + 1]
  /\ UNCHANGED <<connected, tickerKey, subs, endpoint, symbol, i, delay, mdTypeReq, dec,
                 polls, loopExit, t, opened, released>>

\* api.py 301-308: the not-found test, then reqMktData(qualified[0], ...)
Subscribe(r) ==
  /\ pc[r] = "check"
  /\ IF NotQualified(qualified[r])
       THEN /\ RaiseInRisk(r, HTTPException("404", "Option contract not found"))
            /\ UNCHANGED <<subs, opened, polls, loopExit, t>>
       ELSE /\ subs' = subs \cup {SubKey(r, qualified[r][1])}
            /\ opened' = [opened EXCEPT ![r] = @ + 1]
            /\ polls' = [polls EXCEPT ![r] = 0]
            /\ t' = [t EXCEPT ![r] = NoTicker]
            /\ Goto(r, "poll")
            /\ UNCHANGED loopExit
  /\ UNCHANGED <<connected, tickerKey, endpoint, symbol, i, delay, mdTypeReq, dec,
                 qualified, alt, qlog, released>>

\* api.py 322-345: the exception raised, if one is, on the ticker the loop
\* ended with
RiskError(tk) ==
  IF ~tk.present
    THEN HTTPException("404", "No market data received after waiting")
  ELSE IF BuildRaises(tk) THEN OtherException("OverflowError")
  ELSE NoException

\* api.py 322-345: the response built from the ticker the loop ended with
RiskResult(tk) ==
  IF ~tk.present
    THEN RiskExcept(HTTPException("404", "No market data received after waiting"))
  ELSE IF BuildRaises(tk)
    THEN RiskExcept(OtherException("OverflowError"))
  ELSE Res("200", "")

\* a loop that goes on polling once the subscription is cancelled
LeaveLoopKeepPolling(r, tk, how) ==
  /\ loopExit' = [loopExit EXCEPT ![r] = how]
  /\ polls' = [polls EXCEPT ![r] = 0]
  /\ subs' = subs \ {SubKey(r, qualified[r][1])}
  /\ released' = [released EXCEPT ![r] = 1]
  /\ Goto(r, "poll")

\* api.py 320-345: what follows the loop, up to the return, runs without
\* suspension: cancelMktData(qualified[0]), the no-data test, the result.
\* The loop variable is dead once the loop is left.
LeaveLoop(r, tk, how) ==
  /\ loopExit' = [loopExit EXCEPT ![r] = how]
  /\ polls' = [polls EXCEPT ![r] = 0]
  /\ subs' = subs \ {SubKey(r, qualified[r][1])}
  /\ released' = [released EXCEPT ![r] = @ + 1]
  /\ IF RiskResult(tk).status = "200"
       THEN Return(r, RiskResult(tk), OptionGreeks(tk))
       ELSE RaiseInRisk(r, RiskError(tk))

\* api.py 310-345: one iteration of the polling loop (the sleep is over, ticker,
\* test); on break and past the last iteration, the rest of the function
PollFrom(r, answers) ==
  /\ pc[r] = "poll"
  /\ \E ans \in answers :
       /\ t' = [t EXCEPT ![r] = ans]
       /\ IF HasData(ans)
            THEN LeaveLoop(r, ans, "break")
          ELSE IF polls[r] + 1 >= PollCeiling
            THEN LeaveLoop(r, ans, "ceiling")
          ELSE /\ Goto(r, "poll")
               /\ polls' = [polls EXCEPT ![r] = @ + 1]
               /\ UNCHANGED <<loopExit, subs, released>>
  /\ UNCHANGED <<connected, tickerKey, endpoint, symbol, i, delay, mdTypeReq, dec,
                 qualified, alt, qlog, opened>>

\* the polling loop in the runs of whole requests
Poll(r) == PollFrom(r, PollAnswers)

\* the polling loop with the feed free to deliver any ticker of TickerSpace
PollAny(r) == PollFrom(r, TickerSpace)

\* api.py 311-316 raising inside the loop (the sleep cancelled, the client
\* failing, math.isnan on a value that is no float): control goes to 347
PollRaises(r) ==
  /\ pc[r] = "poll"
  /\ loopExit' = [loopExit EXCEPT ![r] = "raise"]
  /\ polls' = [polls EXCEPT ![r] = 0]
  /\ RaiseInRisk(r, OtherException("poll failed"))
  /\ UNCHANGED <<connected, tickerKey, subs, endpoint, symbol, i, delay, mdTypeReq, dec,
                 qualified, alt, qlog, t, opened, released>>

(***************************************************************************)
(* get_market_snapshot, api.py 459-513.                                    *)
(***************************************************************************)
\* api.py 461-465
EnterSnapshot(r) ==
  /\ pc[r] = "entered"
  /\ endpoint[r] = "market_snapshot"
  /\ mdTypeReq' = [mdTypeReq EXCEPT ![r] = reqMarketDataType(@, DelayedFrozen)]
  /\ dec' = [dec EXCEPT ![r] = StockDecode(parse_symbol(symbol[r]))]
  /\ Goto(r, "snap_qualify")
  /\ UNCHANGED <<connected, tickerKey, subs, endpoint, symbol, i, delay, qualified, alt,
                 qlog, polls, loopExit, t, opened, released>>

\* api.py 468-472
SnapQualify(r) ==
  /\ pc[r] = "snap_qualify"
  /\ \E o \in QualifyOutcomes :
       LET ans == Answer(o, Stock(dec[r])) IN
         /\ LogCall(r, Stock(dec[r]), o)
         /\ IF o = "raise"
              THEN /\ RaiseOutside(r, OtherException("qualify failed"))
                   /\ UNCHANGED qualified
              ELSE /\ qualified' = [qualified EXCEPT ![r] = ans]
                   /\ IF SnapshotNotQualified(ans)
                        THEN RaiseOutside(r, HTTPException("404",
                                                "Contract not found"))
                        ELSE Goto(r, "snap_tickers")
  /\ UNCHANGED <<connected, tickerKey, subs, endpoint, symbol, i, delay, mdTypeReq, dec,
                 alt, polls, loopExit, t, opened, released>>

\* api.py 476-513: reqTickersAsync(contract) raises, returns no ticker or
\* returns one; contract.localSymbol (508) raises when contract is None
SnapTickersFrom(r, answers) ==
  /\ pc[r] = "snap_tickers"
  /\ \/ /\ \E o \in {"raise", "empty"} :
            RaiseInTickers(r, IF o = "raise"
                                THEN OtherException("request failed")
                                ELSE HTTPException("504",
                                       "No market data received from IBKR"))
        /\ UNCHANGED t
     \/ \E tk \in answers :
          /\ t' = [t EXCEPT ![r] = tk]
          /\ IF ~qualified[r][1].present
               THEN RaiseOutside(r, OtherException("AttributeError"))
               ELSE Return(r, Res("200", ""), MarketSnapshot(tk))
  /\ UNCHANGED <<connected, tickerKey, subs, endpoint, symbol, i, delay, mdTypeReq, dec,
                 qualified, alt, qlog, polls, loopExit, opened, released>>

\* reqTickersAsync in the runs of whole requests
SnapTickers(r) == SnapTickersFrom(r, SnapshotAnswers)

\* reqTickersAsync with the feed free to deliver any quote of QuoteSpace
SnapTickersAny(r) == SnapTickersFrom(r, QuoteSpace)

(***************************************************************************)
(* Specifications.                                                         *)
(***************************************************************************)
Next ==
  \E r \in Requests :
    \/ GetIb(r)
    \/ ConnectStart(r)
    \/ ConnectReturn(r)
    \/ SleepDone(r)
    \/ EnterRisk(r)
    \/ Qualify(r)
    \/ Retry(r)
    \/ Subscribe(r)
    \/ Poll(r)
    \/ PollRaises(r)
    \/ EnterSnapshot(r)
    \/ SnapQualify(r)
    \/ SnapTickers(r)

Spec == Init /\ [][Next]_vars

\* the decoding runs: one get_option_risk request on the connected gateway,
\* any symbol of DecodeSymbols, up to the subscription
InitDecode ==
  /\ connected = TRUE
  /\ endpoint = (1 :> "option_risk") @@ (2 :> "none")
  /\ \E s \in DecodeSymbols : symbol = (1 :> s) @@ (2 :> <<>>)
  /\ InitLocals

NextDecode ==
  \E r \in Requests :
    \/ GetIb(r)
    \/ EnterRisk(r)
    \/ Qualify(r)
    \/ Retry(r)
    \/ Subscribe(r)

SpecDecode == InitDecode /\ [][NextDecode]_vars

\* the normalizer runs: one get_market_snapshot request on the connected
\* gateway, any symbol of ParseInputs, up to the call of parse_symbol
InitParse ==
  /\ connected = TRUE
  /\ endpoint = (1 :> "market_snapshot") @@ (2 :> "none")
  /\ \E s \in ParseInputs : symbol = (1 :> s) @@ (2 :> <<>>)
  /\ InitLocals

NextParse ==
  \E r \in Requests :
    \/ GetIb(r)
    \/ EnterSnapshot(r)

SpecParse == InitParse /\ [][NextParse]_vars

\* the result runs: one get_option_risk request on the connected gateway, the
\* feed free to deliver any ticker of TickerSpace at each poll
InitGreeks ==
  /\ connected = TRUE
  /\ endpoint = (1 :> "option_risk") @@ (2 :> "none")
  /\ symbol = (1 :> SymOsiASTS) @@ (2 :> <<>>)
  /\ InitLocals

NextGreeks ==
  \E r \in Requests :
    \/ GetIb(r)
    \/ EnterRisk(r)
    \/ Qualify(r)
    \/ Subscribe(r)
    \/ PollAny(r)

SpecGreeks == InitGreeks /\ [][NextGreeks]_vars

\* the price runs: one get_market_snapshot request on the connected gateway,
\* the feed free to deliver any quote of QuoteSpace
InitPrice ==
  /\ connected = TRUE
  /\ endpoint = (1 :> "market_snapshot") @@ (2 :> "none")
  /\ symbol = (1 :> SymStkAAPL) @@ (2 :> <<>>)
  /\ InitLocals

NextPrice ==
  \E r \in Requests :
    \/ GetIb(r)
    \/ EnterSnapshot(r)
    \/ SnapQualify(r)
    \/ SnapTickersAny(r)

SpecPrice == InitPrice /\ [][NextPrice]_vars

SpecConc == InitConc /\ [][Next]_vars

\* the steps of one request
Step(r) ==
  \/ GetIb(r)
  \/ ConnectStart(r)
  \/ ConnectReturn(r)
  \/ SleepDone(r)
  \/ EnterRisk(r)
  \/ Qualify(r)
  \/ Retry(r)
  \/ Subscribe(r)
  \/ Poll(r)
  \/ PollRaises(r)
  \/ EnterSnapshot(r)
  \/ SnapQualify(r)
  \/ SnapTickers(r)

\* every gateway call returns or raises and every sleep ends: a request that
\* can take a step takes one
SpecLive == Init /\ [][Next]_vars /\ \A r \in Requests : WF_vars(Step(r))

(***************************************************************************)
(* Properties.                                                             *)
(***************************************************************************)
IsRisk(r) == endpoint[r] = "option_risk"
IsSnapshot(r) == endpoint[r] = "market_snapshot"
Done(r) == pc[r] = "done"

NoMarketData == Res("404", "No market data received after waiting")
ContractNotFound == Res("404", "Option contract not found")
UpstreamUnavailable == Res("503", "Could not connect to IBKR")

\* the required-field predicate as the claims word it: some greeks set present,
\* or a last price that is there and is not not-a-number
Satisfies(tk) ==
  /\ tk.present
  /\ \/ tk.modelGreeks.present \/ tk.bidGreeks.present
     \/ tk.askGreeks.present \/ tk.lastGreeks.present
     \/ tk.last.k \in {"num", "inf"}

\* C1: a get_option_risk request that has opened a subscription does not end
\* with it open: whatever the exit path, the request has called cancelMktData
\* and its contract is no longer subscribed.
C1_ReleasedOnEveryExit ==
  \A r \in Requests :
    (IsRisk(r) /\ Done(r) /\ opened[r] > 0) =>
      (released[r] > 0 /\ SubKey(r, qualified[r][1]) \notin subs)

\* C2: a get_option_risk request whose polling loop ran to the ceiling (no
\* snapshot arrived, or none satisfied the predicate) fails with NoMarketData.
C2_NoDataFails ==
  \A r \in Requests :
    (IsRisk(r) /\ Done(r) /\ loopExit[r] = "ceiling") => result[r] = NoMarketData

\* C3: on the ceiling exit the call fails with NoMarketData and has released
\* its subscription exactly once.
C3_TimeoutReleasedOnce ==
  \A r \in Requests :
    (IsRisk(r) /\ Done(r) /\ loopExit[r] = "ceiling") =>
      (result[r] = NoMarketData /\ opened[r] = 1 /\ released[r] = 1)

\* C4: at most one connect attempt is in flight at any time.
C4_ConnectSerialized ==
  Cardinality({r \in Requests : pc[r] = "connecting"}) <= 1

\* C5: while a request is polling, the subscription it opened is still there:
\* no other request's release has removed it.
C5_SelfContained ==
  \A r \in Requests : pc[r] = "poll" => SubKey(r, qualified[r][1]) \in subs

AllFailed(r) ==
  /\ qlog[r] # <<>>
  /\ \A k \in 1..Len(qlog[r]) : qlog[r][k].answer = "fail"

\* the order the claims give for the currencies of a European-format option
\* whose inferred currency is first
ExpectedCurrencies(first) ==
  LET Other(c) == c # first
  IN  <<first>> \o SelectSeq(<<"EUR", "GBP", "CHF", "USD">>, Other)

C7_NotFoundNoSubscription ==
  \A r \in Requests :
    (IsRisk(r) /\ AllFailed(r)) =>
      /\ opened[r] = 0
      /\ pc[r] \in {"retry", "check", "done"}
      /\ Done(r) => result[r] = ContractNotFound

C7_Witness ==
  \E r \in Requests :
    /\ IsRisk(r) /\ dec[r].european /\ AllFailed(r) /\ Len(qlog[r]) = 4
    /\ Done(r) /\ result[r] = ContractNotFound /\ opened[r] = 0

\* C8: an OSI-format option request and an equity request issue at most one
\* qualification call, and when that call fails (an empty list or a list
\* holding None) the request answers 404.
C8_SingleQualification ==
  \A r \in Requests :
    ~dec[r].european =>
      /\ Len(qlog[r]) <= 1
      /\ (Done(r) /\ AllFailed(r)) => result[r].status = "404"

\* C9: the polling loop makes at most 50 polls (a request waiting to poll has
\* made fewer than 50) and makes no poll once the snapshot of a poll satisfies
\* the predicate; it is left by break exactly on a satisfying snapshot.
C9_PollBound ==
  \A r \in Requests :
    /\ pc[r] = "poll" => (polls[r] < 50 /\ ~Satisfies(t[r]))
    /\ loopExit[r] = "break" => Satisfies(t[r])
    /\ loopExit[r] = "ceiling" => ~Satisfies(t[r])

C9_Witness ==
  \E r \in Requests : pc[r] = "poll" /\ polls[r] = 49 /\ t[r] = TkEmpty

\* C10: get_ib makes at most 3 connect attempts, sleeps 2 and then 4 seconds
\* between them and not after the third, makes no attempt once one has
\* succeeded, and answers 503 only after the third attempt has failed.
C10_ConnectRetry ==
  \A r \in Requests :
    /\ pc[r] \in {"loop", "connecting", "sleeping"} => (i[r] \in 0..2 /\ ~connected)
    /\ pc[r] = "connecting" =>
         delay[r] = (IF i[r] = 0 THEN 2 ELSE IF i[r] = 1 THEN 4 ELSE 8)
    /\ pc[r] = "sleeping" =>
         (i[r] = 0 /\ delay[r] = 2) \/ (i[r] = 1 /\ delay[r] = 4)
    /\ result[r] = UpstreamUnavailable => (i[r] = 2 /\ ~connected)

C10_Witness ==
  \E r \in Requests : Done(r) /\ result[r] = UpstreamUnavailable

(***************************************************************************)
(* Properties of the result and of the price derivation.                   *)
(***************************************************************************)
\* a get_option_risk request that has answered with a result
RiskSucceeded(r) == IsRisk(r) /\ Done(r) /\ result[r].status = "200"

\* the six greek fields of a result come from greeks set g: each field the
\* set holds is the field of the result
FromSet(b, g) ==
  /\ g.delta.k # "none" => b.delta = g.delta
  /\ g.gamma.k # "none" => b.gamma = g.gamma
  /\ g.vega.k # "none" => b.vega = g.vega
  /\ g.theta.k # "none" => b.theta = g.theta
  /\ g.impliedVol.k # "none" => b.implied_vol = g.impliedVol
  /\ g.undPrice.k # "none" => b.underlying_price = g.undPrice

\* C11: the greek fields of a result come from the first set present in the
\* order model, bid, ask, last: from the model set whenever it is present,
\* from a later set only when every earlier one is absent.
C11_GreeksPriority ==
  \A r \in Requests :
    RiskSucceeded(r) =>
      LET tk == t[r] IN
        /\ tk.modelGreeks.present => FromSet(body[r], tk.modelGreeks)
        /\ (~tk.modelGreeks.present /\ tk.bidGreeks.present) =>
             FromSet(body[r], tk.bidGreeks)
        /\ (~tk.modelGreeks.present /\ ~tk.bidGreeks.present
              /\ tk.askGreeks.present) => FromSet(body[r], tk.askGreeks)
        /\ (~tk.modelGreeks.present /\ ~tk.bidGreeks.present
              /\ ~tk.askGreeks.present /\ tk.lastGreeks.present) =>
             FromSet(body[r], tk.lastGreeks)

C11_Witness ==
  \E r \in Requests :
    /\ RiskSucceeded(r)
    /\ t[r].modelGreeks.present /\ t[r].bidGreeks.present /\ t[r].askGreeks.present
    /\ body[r].delta = FNum(11) /\ body[r].underlying_price = FNum(16)

\* the set the claims call selected
Chosen(tk) ==
  IF tk.modelGreeks.present THEN tk.modelGreeks
  ELSE IF tk.bidGreeks.present THEN tk.bidGreeks
  ELSE IF tk.askGreeks.present THEN tk.askGreeks
  ELSE tk.lastGreeks

\* the field of a result is there, and is 0.0 when no set is present or the
\* field x of the selected set is missing
NeverNull(f, g, x) ==
  /\ f.k # "none"
  /\ (~g.present \/ x.k = "none") => f = FNum(0)

\* C12: every result carries its six greek fields: none is absent, and each
\* is 0.0 when no greeks set is present or the selected set lacks the field.
C12_GreeksNeverNull ==
  \A r \in Requests :
    RiskSucceeded(r) =>
      LET g == Chosen(t[r])
          b == body[r]
      IN  /\ NeverNull(b.delta, g, g.delta)
          /\ NeverNull(b.gamma, g, g.gamma)
          /\ NeverNull(b.vega, g, g.vega)
          /\ NeverNull(b.theta, g, g.theta)
          /\ NeverNull(b.implied_vol, g, g.impliedVol)
          /\ NeverNull(b.underlying_price, g, g.undPrice)

C12_Witness ==
  \E r \in Requests :
    /\ RiskSucceeded(r)
    /\ ~Chosen(t[r]).present
    /\ body[r].delta = FNum(0) /\ body[r].gamma = FNum(0) /\ body[r].vega = FNum(0)
    /\ body[r].theta = FNum(0) /\ body[r].implied_vol = FNum(0)
    /\ body[r].underlying_price = FNum(0)

\* C13: no field of a get_option_risk result is not-a-number.
C13_NoNaNInResult ==
  \A r \in Requests :
    RiskSucceeded(r) =>
      /\ body[r].delta.k # "nan" /\ body[r].gamma.k # "nan"
      /\ body[r].vega.k # "nan" /\ body[r].theta.k # "nan"
      /\ body[r].implied_vol.k # "nan" /\ body[r].underlying_price.k # "nan"
      /\ body[r].volume.k # "nan" /\ body[r].open_interest.k # "nan"
      /\ body[r].last_price.k # "nan"

\* a get_market_snapshot request that has answered with a result
SnapshotSucceeded(r) == IsSnapshot(r) /\ Done(r) /\ result[r].status = "200"

\* a price field that is there with a finite value
Present(x) == x.k = "num"

\* a price field that is absent (not-a-number counted as absent) or finite
FiniteOrAbsent(x) == x.k \in {"none", "nan", "num"}

\* the price the claims derive from a quote of finite or absent fields
ExpectedPrice(tk) ==
  IF Present(tk.last) THEN tk.last
  ELSE IF Present(tk.bid) /\ Present(tk.ask) THEN FNum((tk.bid.v + tk.ask.v) \div 2)
  ELSE IF Present(tk.close) THEN tk.close
  ELSE IF Present(tk.bid) THEN tk.bid
  ELSE IF Present(tk.ask) THEN tk.ask
  ELSE FNum(0)

\* C14: with every price field absent or finite, the derived price is last,
\* else the midpoint of bid and ask when both are present, else close, else
\* bid, else ask, else 0.0.
C14_PricePrecedence ==
  \A r \in Requests :
    (SnapshotSucceeded(r) /\ FiniteOrAbsent(t[r].last) /\ FiniteOrAbsent(t[r].bid)
       /\ FiniteOrAbsent(t[r].ask) /\ FiniteOrAbsent(t[r].close)) =>
      body[r].price = ExpectedPrice(t[r])

\* C15: whatever the four price fields hold (absent, finite, not-a-number,
\* infinite), the derived price is a finite number, and it is 0.0 when all
\* four are absent.
C15_PriceTotal ==
  \A r \in Requests :
    SnapshotSucceeded(r) =>
      /\ body[r].price.k = "num"
      /\ (t[r].last.k = "none" /\ t[r].bid.k = "none" /\ t[r].ask.k = "none"
            /\ t[r].close.k = "none") => body[r].price = FNum(0)

(***************************************************************************)
(* Properties of the option symbol decoding.                               *)
(***************************************************************************)
\* the request has decoded its symbol
Decoded(r) == IsRisk(r) /\ pc[r] \notin {"start", "entered"}

\* the text starts with a right code followed by a space
StartsWithRightAndSpace(s) == Len(s) >= 2 /\ s[1] \in {"P", "C"} /\ s[2] = " "

\* the decode error of the claims: 400 with the message of the decoder
IsDecodeError(res) == res.status = "400"

\* an OSI input the claims call malformed: shorter than 15 characters once
\* its spaces are removed, or a strike or expiry substring that is not digits
MalformedOSI(s) ==
  LET clean == RemoveSpaces(s)
      n == Len(clean)
  IN  /\ ~StartsWithRightAndSpace(s)
      /\ \/ n < 15
         \/ ~AllDigits(LastN(clean, 8))
         \/ ~AllDigits(Slice(clean, Max0(n - 15), Max0(n - 9)))

\* C16: a malformed OSI input issues no qualification call, and the request
\* ends with the decode error.
C16_OsiDecodeError ==
  \A r \in Requests :
    (IsRisk(r) /\ MalformedOSI(Strip(symbol[r]))) =>
      /\ qlog[r] = <<>>
      /\ pc[r] \in {"start", "entered", "done"}
      /\ Done(r) => IsDecodeError(result[r])

\* a European input the claims call malformed: fewer than 4 tokens, or a
\* strike token float() does not accept
MalformedEuropean(s) ==
  /\ StartsWithRightAndSpace(s)
  /\ Len(Split(s)) < 4 \/ ~FloatOk(Split(s)[4])

\* C17: a malformed European input issues no qualification call, and the
\* request ends with the decode error, the same for both kinds of fault.
C17_EuropeanDecodeError ==
  \A r \in Requests :
    (IsRisk(r) /\ MalformedEuropean(Strip(symbol[r]))) =>
      /\ qlog[r] = <<>>
      /\ pc[r] \in {"start", "entered", "done"}
      /\ Done(r) => result[r] = Res("400", "Invalid option symbol format")

\* the contract fields are those of the tuple (ticker, right, expiry, strike)
TupleOf(c, tk, rt, e, st) ==
  /\ c.symbol = tk
  /\ c.right = rt
  /\ c.expiry = <<"2", "0">> \o e
  /\ c.strike.den # 0
  /\ c.strike.num * 1000 = DigitsValue(st) * c.strike.den

\* C18: the symbol that encodes (ticker, right, expiry, strike) in OSI form,
\* padded or not, decodes to that tuple, and the contract submitted for
\* qualification carries it.
C18_OsiRoundTrip ==
  \A r \in Requests :
    \A tk \in OsiTickers, rt \in OsiRights, e \in OsiExpiries, st \in OsiStrikes,
       pad \in OsiPads :
      (Decoded(r) /\ symbol[r] = EncodeOSI(tk, rt, e, st, pad)) =>
        /\ dec[r].status = "ok"
        /\ dec[r].ticker = tk /\ dec[r].right = <<rt>>
        /\ qlog[r] # <<>> => TupleOf(Option(dec[r], dec[r].currency), tk, rt, e, st)
        /\ ~NotQualified(qualified[r]) => TupleOf(qualified[r][1], tk, rt, e, st)

\* C19: the trimmed symbol is decoded by the European decoder if and only if
\* it starts with P or C followed by a space, and by the OSI decoder otherwise.
C19_FormatDetection ==
  \A r \in Requests :
    Decoded(r) =>
      LET s == Strip(symbol[r]) IN
        /\ dec[r].european <=> StartsWithRightAndSpace(s)
        /\ StartsWithRightAndSpace(s) => dec[r] = DecodeEuropean(s)
        /\ ~StartsWithRightAndSpace(s) => dec[r] = DecodeOSI(s)

C19_Witness ==
  \E r \in Requests :
    /\ Decoded(r) /\ symbol[r] = SymEurBATS
    /\ dec[r].european /\ dec[r].status = "ok" /\ dec[r].right = <<"C">>

\* the raw ticker ends with a suffix of the table
HasTableSuffix(raw) ==
  \E k \in 1..Len(MARKET_SUFFIXES) : EndsWith(Upper(raw), MARKET_SUFFIXES[k].suffix)

TableCurrency(raw) ==
  MARKET_SUFFIXES[CHOOSE k \in 1..Len(MARKET_SUFFIXES) :
                    EndsWith(Upper(raw), MARKET_SUFFIXES[k].suffix)].currency

\* the raw ticker of an OSI symbol: what precedes its last 15 characters
OsiRawTicker(s) == DropLastN(RemoveSpaces(s), 15)

\* C20: a European symbol gives right, ticker, expiry and strike as its
\* tokens 1 to 4, the strike unscaled, whatever follows; its first
\* qualification call is in EUR when the raw ticker has no suffix and in the
\* table's currency when it has a table suffix; the first call of an OSI
\* symbol without suffix is in USD.
C20_EuropeanFields ==
  \A r \in Requests :
    (Decoded(r) /\ dec[r].status = "ok") =>
      LET s == Strip(symbol[r])
          parts == Split(s)
      IN  /\ dec[r].european =>
               /\ dec[r].right = parts[1]
               /\ dec[r].ticker = parse_symbol(parts[2]).ticker
               /\ dec[r].expiry = parts[3]
               /\ dec[r].strike = FloatVal(parts[4])
               /\ (qlog[r] # <<>> /\ ~Contains(parts[2], ".")) =>
                    qlog[r][1].currency = "EUR"
               /\ (qlog[r] # <<>> /\ HasTableSuffix(parts[2])) =>
                    qlog[r][1].currency = TableCurrency(parts[2])
          /\ (~dec[r].european /\ qlog[r] # <<>>
                /\ ~Contains(OsiRawTicker(s), ".")) =>
               qlog[r][1].currency = "USD"

C20_Witness ==
  \E r \in Requests :
    /\ Decoded(r) /\ symbol[r] = SymEurHMI
    /\ dec[r].ticker = <<"H", "M", "I">>
    /\ dec[r].strike = [num |-> 1900, den |-> 1]
    /\ qlog[r] # <<>> /\ qlog[r][1].currency = "EUR"

(***************************************************************************)
(* Properties of parse_symbol.                                             *)
(***************************************************************************)
\* the table entries whose suffix ends the text
Matching(s) == {k \in 1..Len(MARKET_SUFFIXES) : EndsWith(s, MARKET_SUFFIXES[k].suffix)}

\* C21: parse_symbol gives a venue and a currency for every input; with the
\* input uppercased and trimmed, an input ending with a table suffix gives
\* the ticker without the suffix and the venue and currency of that suffix,
\* any other input gives (input, SMART, USD); no input ends with two table
\* suffixes.
C21_ParseSymbol ==
  \A r \in Requests :
    (IsSnapshot(r) /\ pc[r] \notin {"start", "entered"}) =>
      LET s == Strip(Upper(symbol[r])) IN
        /\ dec[r].exchange # "" /\ dec[r].currency # ""
        /\ Cardinality(Matching(s)) <= 1
        /\ \A k \in Matching(s) :
             /\ dec[r].ticker = DropLastN(s, Len(MARKET_SUFFIXES[k].suffix))
             /\ dec[r].exchange = MARKET_SUFFIXES[k].exchange
             /\ dec[r].currency = MARKET_SUFFIXES[k].currency
        /\ Matching(s) = {} =>
             /\ dec[r].ticker = s
             /\ dec[r].exchange = "SMART" /\ dec[r].currency = "USD"

C21_Witness ==
  \E r \in Requests :
    /\ IsSnapshot(r) /\ symbol[r] = SymStkRMS /\ pc[r] = "snap_qualify"
    /\ dec[r].ticker = <<"R", "M", "S">>
    /\ dec[r].exchange = "SBF" /\ dec[r].currency = "EUR"

(***************************************************************************)
(* Properties of the order of the gateway operations and of the errors.    *)
(***************************************************************************)
\* C22: a request that opens a subscription (or asks for tickers) has issued
\* the market data mode request, delayed-frozen, before.
C22_ModeBeforeSubscribe ==
  \A r \in Requests :
    (opened[r] > 0 \/ pc[r] \in {"check", "poll", "snap_tickers"}) =>
      (mdTypeReq[r] # <<>> /\ mdTypeReq[r][1] = 4)

C22_Witness ==
  \E r \in Requests :
    IsRisk(r) /\ pc[r] = "poll" /\ opened[r] = 1 /\ mdTypeReq[r] = <<4>>

\* C23: when a poll returned a snapshot and the next, the last of the budget,
\* returns none, the request does not answer that no data arrived: the
\* snapshot used is the earlier one.
C23_LastNonEmptyUsed ==
  [][\A r \in Requests :
       (pc[r] = "poll" /\ t[r].present /\ ~t'[r].present
          /\ pc'[r] = "done" /\ loopExit'[r] = "ceiling") =>
         result'[r] # NoMarketData]_vars

\* C24: the gateway operations of a get_option_risk request come in the order
\* qualification, subscribe, polls, unsubscribe: no subscription while the
\* qualification calls go on, one only after a call that returned a contract,
\* no poll after the unsubscribe, none at all for a request that ends in a
\* decode error or ContractNotFound.
C24_OperationOrder ==
  \A r \in Requests :
    IsRisk(r) =>
      /\ pc[r] \in {"start", "entered", "qualify", "retry", "check"} =>
           (opened[r] = 0 /\ released[r] = 0)
      /\ opened[r] > 0 =>
           /\ opened[r] = 1
           /\ qlog[r] # <<>> /\ qlog[r][Len(qlog[r])].answer = "ok"
           /\ ~NotQualified(qualified[r])
      /\ pc[r] = "poll" => (opened[r] = 1 /\ released[r] = 0)
      /\ released[r] > 0 => (released[r] = 1 /\ opened[r] = 1 /\ Done(r))
      /\ (Done(r) /\ (dec[r].status # "ok" \/ result[r] = ContractNotFound)) =>
           opened[r] = 0

C24_Witness ==
  \E r \in Requests :
    /\ IsRisk(r) /\ Done(r) /\ Len(qlog[r]) = 2
    /\ opened[r] = 1 /\ released[r] = 1 /\ loopExit[r] = "break"

\* the budget of a get_option_risk request: a connect attempt in progress is
\* the first, second or third; at most 4 qualification calls; a poll to come
\* is at most the 50th
WithinBudget ==
  \A r \in Requests :
    IsRisk(r) =>
      /\ pc[r] \in {"loop", "connecting", "sleeping"} => i[r] < 3
      /\ Len(qlog[r]) <= 4
      /\ polls[r] < 50

\* C25: every get_option_risk request stays within the budget and ends, the
\* gateway calls returning or raising.
C25_BoundedTermination ==
  /\ []WithinBudget
  /\ \A r \in Requests : (IsRisk(r) ~> Done(r))

C25_Witness ==
  \E r \in Requests :
    /\ IsRisk(r) /\ Done(r) /\ Len(qlog[r]) = 4 /\ loopExit[r] = "ceiling"

\* two contracts are the same option, the currency left aside
SameOption(c1, c2) ==
  /\ c1.symbol = c2.symbol /\ c1.expiry = c2.expiry
  /\ c1.strike = c2.strike /\ c1.right = c2.right

\* C26: the qualification calls of a get_option_risk request are at most 4,
\* their currencies differ pairwise, their contracts are the same option, and
\* the inferred currency is one of EUR, GBP, CHF, USD.
C26_NoCurrencyTwice ==
  \A r \in Requests :
    IsRisk(r) =>
      /\ Len(qlog[r]) <= 4
      /\ dec[r].status = "ok" => dec[r].currency \in {"EUR", "GBP", "CHF", "USD"}
      /\ \A j \in 1..Len(qlog[r]) : \A k \in (j + 1)..Len(qlog[r]) :
           /\ qlog[r][j].currency # qlog[r][k].currency
           /\ SameOption(qlog[r][j].contract, qlog[r][k].contract)

C26_Witness ==
  \E r \in Requests :
    /\ IsRisk(r) /\ dec[r].european /\ dec[r].currency = "EUR"
    /\ Len(qlog[r]) = 4 /\ qlog[r][4].currency = "USD" /\ pc[r] = "check"

\* C27: every option contract submitted for qualification has right P or C:
\* P when the decoded right code is P, C for any other code; an OSI symbol
\* well formed but for its right code is decoded without error.
C27_RightPutOrCall ==
  \A r \in Requests :
    (IsRisk(r) /\ Decoded(r)) =>
      /\ \A k \in 1..Len(qlog[r]) :
           /\ qlog[r][k].contract.right \in {"P", "C"}
           /\ qlog[r][k].contract.right = "P" <=> dec[r].right = <<"P">>
      /\ (~StartsWithRightAndSpace(Strip(symbol[r]))
            /\ ~MalformedOSI(Strip(symbol[r]))) => dec[r].status = "ok"

C27_Witness ==
  \E r \in Requests :
    /\ IsRisk(r) /\ symbol[r] = SymOsiRightX /\ dec[r].right = <<"X">>
    /\ qlog[r] # <<>> /\ qlog[r][1].contract.right = "C"

\* the field of a result is the field x of the selected set g, 0.0 when the
\* set is absent or lacks the field
FromSelected(f, g, x) == f = (IF g.present /\ x.k # "none" THEN x ELSE FNum(0))

\* C28: the six greek fields of a result all come from the selected set; a
\* field the selected set lacks is 0.0, whatever the other sets hold.
C28_SingleGreeksSet ==
  \A r \in Requests :
    RiskSucceeded(r) =>
      LET g == Chosen(t[r])
          b == body[r]
      IN  /\ FromSelected(b.delta, g, g.delta)
          /\ FromSelected(b.gamma, g, g.gamma)
          /\ FromSelected(b.vega, g, g.vega)
          /\ FromSelected(b.theta, g, g.theta)
          /\ FromSelected(b.implied_vol, g, g.impliedVol)
          /\ FromSelected(b.underlying_price, g, g.undPrice)

C28_Witness ==
  \E r \in Requests :
    /\ RiskSucceeded(r)
    /\ t[r].modelGreeks.present /\ t[r].modelGreeks.gamma = FNone
    /\ t[r].bidGreeks.present /\ t[r].bidGreeks.gamma = FNum(22)
    /\ body[r].gamma = FNum(0) /\ body[r].delta = FNum(11)

\* C29: in get_option_risk an HTTP error raised inside the handler (400 or
\* 404) is the response, status and detail unchanged; any other exception is
\* answered 500; a request that raised does not answer 200.
C29_ErrorKinds ==
  \A r \in Requests :
    (IsRisk(r) /\ Done(r)) =>
      /\ (raised[r].http /\ raised[r].status \in {"400", "404"}) =>
           result[r] = Res(raised[r].status, raised[r].detail)
      /\ (~raised[r].http /\ raised[r] # NoException) => result[r].status = "500"
      /\ result[r].status = "200" <=> raised[r] = NoException

C29_Witness ==
  \E r \in Requests :
    /\ IsRisk(r) /\ Done(r) /\ loopExit[r] = "ceiling"
    /\ raised[r] = [http |-> TRUE, status |-> "404",
                    detail |-> "No market data received after waiting"]
    /\ result[r] = NoMarketData

\* C30: a get_market_snapshot request whose ticker request returned no ticker
\* (the 504 error is raised) answers 504 'No market data received from IBKR'.
C30_NoTickerIs504 ==
  \A r \in Requests :
    (IsSnapshot(r) /\ Done(r)
       /\ raised[r] = [http |-> TRUE, status |-> "504",
                       detail |-> "No market data received from IBKR"]) =>
      result[r] = Res("504", "No market data received from IBKR")

====
